---- MODULE Spec2Model ----
(***************************************************************************)
(* Shape masking (src/mask.py): the masking interpreter (mask,             *)
(* mask_subtrace, MaskTracer, MaskTrace.process_primitive), the rule table *)
(* and its three rules (reduce_sum, add, scan).                            *)
(*                                                                         *)
(* Array values are records [shape, elems]: shape is the tuple of concrete *)
(* (padded) extents, elems the row-major flat contents.  A dimension of a  *)
(* ShapeExpr is an int or a str; it is written here as a record            *)
(* [type, var, int] tagged with its Python type, so that dimensions of     *)
(* both kinds can be compared, as Python's tuple equality does.            *)
(***************************************************************************)
EXTENDS Integers, Sequences, FiniteSets, TLC

\* ---- bounds of the model ----
MaxLen == 3      \* padded (maximum) length L of the driver's inputs
MaxSteps == 2    \* primitive applications in one computation run under mask

\* ---- generic helpers ----
Min(S) == CHOOSE m \in S : \A k \in S : m <= k

RECURSIVE SumSeq(_)
SumSeq(s) == IF s = <<>> THEN 0 ELSE Head(s) + SumSeq(Tail(s))

RECURSIVE prod(_)
prod(s) == IF s = <<>> THEN 1 ELSE Head(s) * prod(Tail(s))

\* jax.util.split_list(args, [n1, n2]): three lists, the last one the rest
split_list(args, n1, n2) ==
  << SubSeq(args, 1, n1),
     SubSeq(args, n1 + 1, n1 + n2),
     SubSeq(args, n1 + n2 + 1, Len(args)) >>

\* Python's None, and a value that is not None
None == {}
Some(e) == {e}
The(opt) == CHOOSE e \in opt : TRUE

\* ---- array values and the numeric kernels the rules call ----
Array(shape, elems) == [shape |-> shape, elems |-> elems]
Scalar(v) == Array(<<>>, <<v>>)
Size(shape) == prod(shape)
Full(shape, v) == Array(shape, [k \in 1..Size(shape) |-> v])

\* row-major stride of axis ax (1-based) and the 0-based coordinate of the
\* k-th (1-based) flat element along that axis
Stride(shape, ax) == prod(SubSeq(shape, ax + 1, Len(shape)))
Coord(shape, k, ax) == ((k - 1) \div Stride(shape, ax)) % shape[ax]

\* lax.broadcasted_iota(int32, shape, i), i a 0-based axis
broadcasted_iota(shape, i) ==
  Array(shape, [k \in 1..Size(shape) |-> Coord(shape, k, i + 1)])

\* iota < size, elementwise: an array of booleans
LessThan(arr, size) ==
  Array(arr.shape, [k \in 1..Len(arr.elems) |-> arr.elems[k] < size])

\* operator.and_ on two boolean arrays of one shape
and_(a, b) ==
  Array(a.shape, [k \in 1..Len(a.elems) |-> a.elems[k] /\ b.elems[k]])

\* lax.select(pred, on_true, on_false): pred a boolean array of the operands'
\* shape, or a boolean scalar
select(pred, on_true, on_false) ==
  Array(on_true.shape,
        [k \in 1..Len(on_true.elems) |->
           IF (IF pred.shape = <<>> THEN pred.elems[1] ELSE pred.elems[k])
           THEN on_true.elems[k] ELSE on_false.elems[k]])

\* lax.zeros_like_array(val)
zeros_like_array(val) == Full(val.shape, 0)

\* the axes (1-based) a reduction over `axes` (0-based) keeps, in order
KeptAxes(rank, axes) ==
  SelectSeq([a \in 1..rank |-> a], LAMBDA a : (a - 1) \notin axes)

\* lax.reduce_sum_p on a plain value: the sum over the given axes
reduce_sum_impl(val, axes) ==
  LET kept == KeptAxes(Len(val.shape), axes)
      oshape == [p \in 1..Len(kept) |-> val.shape[kept[p]]]
      Match(k, j) == \A p \in 1..Len(kept) :
                        Coord(val.shape, k, kept[p]) = Coord(oshape, j, p)
  IN Array(oshape,
           [j \in 1..Size(oshape) |->
              SumSeq([k \in 1..Len(val.elems) |->
                        IF Match(k, j) THEN val.elems[k] ELSE 0])])

\* numpy broadcasting of two shapes: the shorter one is padded on the left
\* with 1s; two extents are compatible when they are equal or one of them is 1
PadShape(shape, rank) ==
  [a \in 1..rank |-> IF a <= rank - Len(shape) THEN 1
                     ELSE shape[a - (rank - Len(shape))]]
BroadcastRank(s1, s2) == IF Len(s1) >= Len(s2) THEN Len(s1) ELSE Len(s2)
CanBroadcast(s1, s2) ==
  LET r == BroadcastRank(s1, s2)
      p1 == PadShape(s1, r)
      p2 == PadShape(s2, r)
  IN \A a \in 1..r : p1[a] = p2[a] \/ p1[a] = 1 \/ p2[a] = 1
BroadcastShape(s1, s2) ==
  LET r == BroadcastRank(s1, s2)
      p1 == PadShape(s1, r)
      p2 == PadShape(s2, r)
  IN [a \in 1..r |-> IF p1[a] = 1 THEN p2[a] ELSE p1[a]]

\* the element of arr that the k-th (1-based) flat element of the broadcast
\* result of shape `shape` reads: axes of extent 1 are read at coordinate 0
BroadcastAt(arr, shape, k) ==
  LET off == Len(shape) - Len(arr.shape)
      c(j) == IF arr.shape[j] = 1 THEN 0 ELSE Coord(shape, k, j + off)
  IN arr.elems[1 + SumSeq([j \in 1..Len(arr.shape) |->
                             c(j) * Stride(arr.shape, j)])]

\* x + y on array values (jax.numpy): elementwise with numpy broadcasting
CanAdd(x, y) == CanBroadcast(x.shape, y.shape)
add_impl(x, y) ==
  LET shape == BroadcastShape(x.shape, y.shape)
  IN Array(shape, [k \in 1..Size(shape) |->
                     BroadcastAt(x, shape, k) + BroadcastAt(y, shape, k)])

\* x * y on plain values (a primitive with no masking rule)
mul_impl(x, y) ==
  LET shape == BroadcastShape(x.shape, y.shape)
  IN Array(shape, [k \in 1..Size(shape) |->
                     BroadcastAt(x, shape, k) * BroadcastAt(y, shape, k)])

\* ---- symbolic shapes (ShapeExpr), Var = str ----
IntDim(k) == [type |-> "int", var |-> "", int |-> k]
VarDim(name) == [type |-> "str", var |-> name, int |-> 0]
IsVar(d) == d.type = "str"      \* type(d) is Var
IsInt(d) == d.type = "int"      \* type(s) is int

\* ShapeExpr(*shape): self.shape = tuple(shape)
ShapeExpr(dims) == [shape |-> dims]

\* ShapeExpr.__eq__: type(other) is ShapeExpr and self.shape == other.shape
ShapeExprEq(a, b) == a.shape = b.shape

\* onp.shape(val) as the dimensions of a ShapeExpr
np_shape(val) == [i \in 1..Len(val.shape) |-> IntDim(val.shape[i])]

\* ---- tracers ----
\* MaskTracer(trace, shape_env, val, shape_expr); shape_env is None or Some(env)
MaskTracer(shape_env, val, shape_expr) ==
  [is_tracer |-> TRUE, val |-> val, shape_expr |-> shape_expr,
   shape_env |-> shape_env]

\* a plain (non-traced) value; the shape fields of the record are unused
Plain(val) ==
  [is_tracer |-> FALSE, val |-> val, shape_expr |-> ShapeExpr(np_shape(val)),
   shape_env |-> None]

\* MaskTracer.full_lower; core.full_lower of a plain value is the value
full_lower(t) ==
  IF ~t.is_tracer THEN t
  ELSE IF \A i \in 1..Len(t.shape_expr.shape) : IsInt(t.shape_expr.shape[i])
       THEN Plain(t.val)
       ELSE t

\* MaskTrace.pure / MaskTrace.lift
pure(val) == MaskTracer(None, val, ShapeExpr(np_shape(val)))

\* core.Trace.full_raise: a plain value is lifted by pure, a tracer of this
\* trace is kept
full_raise(v) == IF v.is_tracer THEN v ELSE pure(v.val)

\* ---- results of a rule or of dispatch ----
Ok(out, out_shape) == [status |-> "ok", out |-> out, out_shape |-> out_shape]
Raise(kind) == [status |-> kind, out |-> <<>>, out_shape |-> <<>>]

\* reduce(operator.and_, masks): TypeError on an empty list
HasMasks(masks) == masks # <<>>
RECURSIVE reduce_and(_)
reduce_and(masks) ==
  IF Len(masks) = 1 THEN masks[1]
  ELSE and_(reduce_and(SubSeq(masks, 1, Len(masks) - 1)), masks[Len(masks)])

\* the validity mask of one symbolic axis: iota along the axis < dynamic size
AxisMaskLeq(val, i, size) ==
  LET iota == broadcasted_iota(val.shape, i)
  IN Array(iota.shape, [k \in 1..Len(iota.elems) |-> iota.elems[k] <= size])
AxisMask(val, i, size) == LessThan(broadcasted_iota(val.shape, i), size)

\* reduce_sum_masking_rule(shape_env, vals, shape_exprs, axes, input_shape)
reduce_sum_masking_rule(shape_env, vals, shape_exprs, axes) ==
  LET val == vals[1]
      in_shape == shape_exprs[1].shape
      symaxes == SelectSeq([a \in 1..Len(in_shape) |-> a],
                           LAMBDA a : IsVar(in_shape[a]))
      masks == [p \in 1..Len(symaxes) |->
                  AxisMask(val, symaxes[p] - 1, shape_env[in_shape[symaxes[p]].var])]
  IN IF ~HasMasks(masks) THEN Raise("TypeError")
     ELSE LET mask_ == reduce_and(masks)
              masked_val == select(mask_, val, zeros_like_array(val))
              out_val == reduce_sum_impl(masked_val, axes)
              kept == KeptAxes(Len(in_shape), axes)
              out_shape == ShapeExpr([p \in 1..Len(kept) |-> in_shape[kept[p]]])
          IN Ok(<<out_val>>, <<out_shape>>)

\* add_masking_rule(shape_env, vals, shape_exprs)
add_masking_rule_compatible(shape_env, vals, shape_exprs) ==
  LET D(d) == IF IsVar(d) THEN shape_env[d.var] ELSE d.int
      a == shape_exprs[1].shape
      b == shape_exprs[2].shape
  IN IF Len(a) = Len(b) /\ \A k \in 1..Len(a) : D(a[k]) = D(b[k])
     THEN IF CanAdd(vals[1], vals[2])
          THEN Ok(<<add_impl(vals[1], vals[2])>>, <<shape_exprs[1]>>)
          ELSE Raise("ValueError")
     ELSE Raise("ShapeError")
add_masking_rule(shape_env, vals, shape_exprs) ==
  LET x == vals[1]
      y == vals[2]
      x_shape == shape_exprs[1]
      y_shape == shape_exprs[2]
  IN IF ShapeExprEq(x_shape, y_shape)
     THEN IF CanAdd(x, y) THEN Ok(<<add_impl(x, y)>>, <<x_shape>>)
          ELSE Raise("ValueError")   \* x + y: operands could not be broadcast
     ELSE Raise("ShapeError")

\* ---- loop bodies (typed jaxprs) ----
\* A jaxpr over (consts, carry, x) -> (new carry, y): its declared operand
\* and result types are tuples of shapes.
J_cumsum == [name |-> "cumsum", in_avals |-> << <<>>, <<>> >>,
             out_avals |-> << <<>> >>]
J_horner == [name |-> "horner", in_avals |-> << <<>>, <<>> >>,
             out_avals |-> << <<>>, <<>> >>]
J_pair   == [name |-> "pair", in_avals |-> << <<MaxLen>>, <<>>, <<>> >>,
             out_avals |-> << <<MaxLen>>, <<>>, <<2>> >>]
J_affine == [name |-> "affine", in_avals |-> << <<>>, <<>>, <<>> >>,
             out_avals |-> << <<>> >>]
Jaxprs == {J_cumsum, J_horner, J_pair, J_affine}

\* the scan parameters num_consts, num_carry that go with each body
NumConsts(j) == IF j.name = "affine" THEN 1 ELSE 0
NumCarry(j) == IF j.name = "pair" THEN 2 ELSE 1

\* the body's computation on operands of its declared types
FunOut(j, a) ==
  CASE j.name = "cumsum" -> << add_impl(a[1], a[2]) >>          \* c + x
    [] j.name = "horner" -> << add_impl(add_impl(a[1], a[1]), a[2]), a[1] >>
    [] j.name = "pair"   -> << add_impl(a[1], a[3]), add_impl(a[2], a[3]),
                               Array(<<2>>, <<a[2].elems[1], a[3].elems[1]>>) >>
    [] j.name = "affine" -> << add_impl(mul_impl(a[1], a[2]), a[3]) >>

\* core.jaxpr_as_fun(jaxpr)(*args): the operands are bound to the jaxpr's
\* declared inputs one to one
jaxpr_as_fun(j, args) ==
  IF Len(args) # Len(j.in_avals) THEN Raise("LengthMismatch")
  ELSE Ok(FunOut(j, args), <<>>)

\* ---- the structured-loop rule ----
\* line 157: the operands the rewritten body hands to the original body
FunArgs(consts, carry, xs) == carry \o xs

\* line 159: the predicate of the per-field select
Live(i, dynamic_length) == i.elems[1] < dynamic_length

\* masked(*args), the rewritten body of _masked_scan_jaxpr
masked_counting_live(jaxpr, dynamic_length, num_consts, num_carry, args) ==
  LET sp == split_list(args, num_consts, num_carry + 1)
      i == sp[2][1]
      carry == Tail(sp[2])
      res == jaxpr_as_fun(jaxpr, FunArgs(sp[1], carry, sp[3]))
      live == Live(i, dynamic_length)
  IN IF res.status # "ok" THEN res
     ELSE Ok(<< Scalar(i.elems[1] + (IF live THEN 1 ELSE 0)) >>
             \o [f \in 1..num_carry |->
                   select(Array(<<>>, <<live>>), res.out[f], carry[f])]
             \o SubSeq(res.out, num_carry + 1, Len(res.out)), <<>>)
masked(jaxpr, dynamic_length, num_consts, num_carry, args) ==
  LET sp == split_list(args, num_consts, num_carry + 1)
      consts == sp[1]
      i == sp[2][1]
      carry == Tail(sp[2])
      xs == sp[3]
      res == jaxpr_as_fun(jaxpr, FunArgs(consts, carry, xs))
  IN IF res.status # "ok" THEN res
     ELSE LET new_carry == SubSeq(res.out, 1, num_carry)
              ys == SubSeq(res.out, num_carry + 1, Len(res.out))
              pred == Array(<<>>, << Live(i, dynamic_length) >>)
              sel == [f \in 1..num_carry |-> select(pred, new_carry[f], carry[f])]
          IN Ok(<< Scalar(i.elems[1] + 1) >> \o sel \o ys, <<>>)

\* _masked_scan_jaxpr / _make_typed_jaxpr: the rewritten body is traced once
\* on abstract operands of types const_avals + [i_aval] + carry_avals + x_avals
masked_scan_jaxpr_traces(jaxpr, dynamic_length, num_consts, num_carry) ==
  LET sp == split_list(jaxpr.in_avals, num_consts, num_carry)
      in_avals == sp[1] \o << <<>> >> \o sp[2] \o sp[3]
      abstract == [k \in 1..Len(in_avals) |-> Full(in_avals[k], 0)]
  IN masked(jaxpr, dynamic_length, num_consts, num_carry, abstract).status

\* _masked_scan_shape_rule(length, carry_shapes, y_avals)
masked_scan_shape_rule_no_length(length, carry_shapes, y_avals) ==
  carry_shapes \o
  [k \in 1..Len(y_avals) |->
     ShapeExpr([d \in 1..Len(y_avals[k]) |-> IntDim(y_avals[k][d])])]
masked_scan_shape_rule(length, carry_shapes, y_avals) ==
  carry_shapes \o
  [k \in 1..Len(y_avals) |->
     ShapeExpr(<<length>> \o [d \in 1..Len(y_avals[k]) |-> IntDim(y_avals[k][d])])]

\* line 130: dynamic_length = shape_env[length] if type(length) is Var else length
DynamicLength(shape_env, length) ==
  IF IsVar(length) THEN shape_env[length.var] ELSE length.int

\* line 132: max_length, = {x.shape[0] for x in xs}
MaxLengths(xs) == {xs[k].shape[1] : k \in 1..Len(xs)}

\* ---- lax.scan_p on plain values ----
\* the element of the sequences read by iteration t (0-based)
ScanIndex(forward, length, t) == IF forward THEN t ELSE length - t - 1

\* x[idx] along the leading axis, and x with block idx replaced by y
IndexIn(x, idx) ==
  LET sh == Tail(x.shape)
  IN Array(sh, SubSeq(x.elems, idx * Size(sh) + 1, (idx + 1) * Size(sh)))
UpdateIndex(x, idx, y) ==
  LET n == Size(Tail(x.shape))
  IN Array(x.shape, [k \in 1..Len(x.elems) |->
                       IF (k - 1) \div n = idx THEN y.elems[k - idx * n]
                       ELSE x.elems[k]])

\* the ordinary loop (lax.scan_p on plain values): the body applied to
\* (consts, carry, x[idx]) for each idx of idxs in turn, its y written at
\* ys[idx]; the final carry and the stacked ys
RECURSIVE ScanRun(_, _, _, _, _, _)
ScanRun(jaxpr, consts, carry, xs, ys, idxs) ==
  IF idxs = <<>> THEN [carry |-> carry, ys |-> ys]
  ELSE LET x == [k \in 1..Len(xs) |-> IndexIn(xs[k], Head(idxs))]
           out == FunOut(jaxpr, consts \o carry \o x)
           nc == Len(carry)
       IN ScanRun(jaxpr, consts, SubSeq(out, 1, nc), xs,
                  [k \in 1..Len(ys) |-> UpdateIndex(ys[k], Head(idxs), out[nc + k])],
                  Tail(idxs))

\* the stacked outputs before the first iteration
EmptyYs(length, y_avals) ==
  [k \in 1..Len(y_avals) |-> Full(<<length>> \o y_avals[k], 0)]

\* the elements read by the first count iterations of a loop of the given
\* direction and length, in order
ScanOrder(forward, length, count) ==
  [t \in 1..count |-> ScanIndex(forward, length, t - 1)]

\* scan_p.impl: length iterations in the direction of the flag
scan_impl(vals, params) ==
  LET sp == split_list(vals, params.num_consts, params.num_carry)
      y_avals == SubSeq(params.jaxpr.out_avals, params.num_carry + 1,
                        Len(params.jaxpr.out_avals))
      r == ScanRun(params.jaxpr, sp[1], sp[2], sp[3],
                   EmptyYs(params.length.int, y_avals),
                   ScanOrder(params.forward, params.length.int, params.length.int))
  IN r.carry \o r.ys

\* scan_masking_rule, lines 130-137: everything up to the bind of the
\* rewritten loop.  status is "ok" and loop is the state of that loop before
\* its first iteration, or status is the exception raised.
scan_masking_rule_setup(shape_env, vals, shape_exprs, params) ==
  LET dynamic_length == DynamicLength(shape_env, params.length)
      sp == split_list(vals, params.num_consts, params.num_carry)
      consts == sp[1]
      init == sp[2]
      xs == sp[3]
      shp == split_list(shape_exprs, params.num_consts, params.num_carry)
      init_shapes == shp[2]
      y_avals == SubSeq(params.jaxpr.out_avals, params.num_carry + 1,
                        Len(params.jaxpr.out_avals))
      out_shapes == masked_scan_shape_rule(params.length, init_shapes, y_avals)
      traced == masked_scan_jaxpr_traces(params.jaxpr, dynamic_length,
                                         params.num_consts, params.num_carry)
      lin == split_list(params.linear, params.num_consts, params.num_carry)
  IN IF Cardinality(MaxLengths(xs)) # 1 THEN [status |-> "ValueError"]
     ELSE IF traced # "ok" THEN [status |-> traced]
     ELSE [status |-> "ok",
           loop |-> [forward |-> params.forward,
                     length |-> The(MaxLengths(xs)),
                     jaxpr |-> params.jaxpr,
                     dynamic_length |-> dynamic_length,
                     num_consts |-> params.num_consts,
                     num_carry |-> 1 + params.num_carry,
                     linear |-> lin[1] \o <<FALSE>> \o lin[2] \o lin[3],
                     consts |-> consts,
                     init |-> init,
                     carry |-> << Scalar(0) >> \o init,
                     xs |-> xs,
                     ys |-> EmptyYs(The(MaxLengths(xs)), y_avals),
                     t |-> 0,
                     out_shapes |-> out_shapes,
                     returned |-> None]]

\* one iteration of the rewritten loop: the rewritten body on
\* (consts, [i] + carry, x[idx]); the loop after it
scan_iteration(l) ==
  LET idx == ScanIndex(l.forward, l.length, l.t)
      x == [k \in 1..Len(l.xs) |-> IndexIn(l.xs[k], idx)]
      r == masked(l.jaxpr, l.dynamic_length, l.num_consts, l.num_carry - 1,
                  l.consts \o l.carry \o x)
  IN [l EXCEPT !.carry = SubSeq(r.out, 1, l.num_carry),
               !.ys = [k \in 1..Len(l.ys) |->
                         UpdateIndex(l.ys[k], idx, r.out[l.num_carry + k])],
               !.t = l.t + 1]

\* line 143: return out_vals[1:], out_shapes
scan_masking_rule_return(l) == Ok(Tail(l.carry \o l.ys), l.out_shapes)

\* ---- the rule table and dispatch ----
\* masking_rules: reduce_sum_p, add_p and scan_p are registered
masking_rules ==
  [p \in {"reduce_sum", "add", "scan"} |->
     CASE p = "reduce_sum" -> "reduce_sum_masking_rule"
       [] p = "add" -> "add_masking_rule"
       [] p = "scan" -> "scan_masking_rule"]

\* primitive.impl on plain values (the primitive run outside any trace); the
\* lax binary primitives take operands of one shape
impl(primitive, vals, params) ==
  CASE primitive = "reduce_sum" -> Ok(<<reduce_sum_impl(vals[1], params.axes)>>, <<>>)
    [] primitive = "add" ->
         IF vals[1].shape = vals[2].shape
         THEN Ok(<<add_impl(vals[1], vals[2])>>, <<>>)
         ELSE Raise("TypeError")
    [] primitive = "mul" ->
         IF vals[1].shape = vals[2].shape
         THEN Ok(<<mul_impl(vals[1], vals[2])>>, <<>>)
         ELSE Raise("TypeError")

\* line 89: next(t.shape_env for t in tracers if t.shape_env is not None);
\* None stands for StopIteration
first_operand_shape_env(tracers) == tracers[1].shape_env
first_shape_env(tracers) ==
  LET has == {k \in 1..Len(tracers) : tracers[k].shape_env # None}
  IN IF has = {} THEN None ELSE tracers[Min(has)].shape_env

\* line 92: rule(shape_env, vals, shape_exprs, **params), single-result rules
apply_rule(rule, shape_env, vals, shape_exprs, params) ==
  CASE rule = "reduce_sum_masking_rule" ->
         reduce_sum_masking_rule(shape_env, vals, shape_exprs, params.axes)
    [] rule = "add_masking_rule" ->
         add_masking_rule(shape_env, vals, shape_exprs)

\* the tracers built from a rule's outputs (lines 93-96)
wrap_outputs(shape_env, out, out_shape) ==
  [k \in 1..Len(out) |-> MaskTracer(shape_env, out[k], out_shape[k])]

\* MaskTrace.process_primitive for a single-result primitive: the outputs are
\* tracers; env is the environment handed to the rule
process_primitive_fallback(primitive, tracers, params) ==
  LET env == first_shape_env(tracers)
      vals == [k \in 1..Len(tracers) |-> tracers[k].val]
      shape_exprs == [k \in 1..Len(tracers) |-> tracers[k].shape_expr]
      r == IF primitive \in DOMAIN masking_rules
           THEN apply_rule(masking_rules[primitive], The(env), vals,
                           shape_exprs, params)
           ELSE impl(primitive, vals, params)
  IN IF env = None THEN [status |-> "StopIteration", out |-> <<>>, env |-> None]
     ELSE [status |-> r.status,
           out |-> [k \in 1..Len(r.out) |->
                      MaskTracer(env, r.out[k], ShapeExpr(np_shape(r.out[k])))],
           env |-> env]
process_primitive(primitive, tracers, params) ==
  LET env == first_shape_env(tracers)
      vals == [k \in 1..Len(tracers) |-> tracers[k].val]
      shape_exprs == [k \in 1..Len(tracers) |-> tracers[k].shape_expr]
  IN IF env = None THEN [status |-> "StopIteration", out |-> <<>>, env |-> None]
     ELSE IF primitive \notin DOMAIN masking_rules
     THEN [status |-> "KeyError", out |-> <<>>, env |-> env]
     ELSE LET r == apply_rule(masking_rules[primitive], The(env), vals,
                              shape_exprs, params)
          IN [status |-> r.status,
              out |-> wrap_outputs(env, r.out, r.out_shape),
              env |-> env]

\* ---- the state of one call of mask ----
VARIABLES
  pc,          \* "run": inside fun.call_wrapped; "scan": inside the rewritten
               \* loop; "done": mask returned; "error": an exception left mask
  shape_env,   \* the Shape Environment passed to mask
  fun,         \* static parameters of the computation run under mask
  in_tracers,  \* the driver's inputs, wrapped by mask_subtrace
  outs,        \* the values the last primitive application returned
  fuel,        \* primitive applications the computation still makes
  last,        \* the last primitive application: operands, dispatch, rule env
  loop,        \* the rewritten loop being run by scan_masking_rule
  err,         \* the exception raised, "none" if none
  ret          \* what mask returned: None, or Some([out_vals, out_shapes])

vars == <<pc, shape_env, fun, in_tracers, outs, fuel, last, loop, err, ret>>

Syms == {"n", "m"}
Envs == {[s \in Syms |-> IF s = "n" THEN a ELSE (a + 1) % (MaxLen + 1)] : a \in 0..MaxLen}
Elems == {0, 1}
Vectors == {Array(<<MaxLen>>, e) : e \in [1..MaxLen -> Elems]}
\* np.arange(MaxLen)
Ramp == Array(<<MaxLen>>, [k \in 1..MaxLen |-> k - 1])
ConstVals == {Scalar(0), Scalar(2)}
Lengths == {VarDim("n"), IntDim(1), IntDim(MaxLen)}
Funs == [jaxpr : Jaxprs, forward : BOOLEAN, length : Lengths]
SessionFuns == [jaxpr : {J_cumsum, J_horner, J_affine}, forward : {TRUE},
                length : {VarDim("n"), IntDim(MaxLen)}]
\* np.arange(MaxLen - 1): a vector padded to a shorter length
Short == Array(<<MaxLen - 1>>, [k \in 1..(MaxLen - 1) |-> k - 1])
\* the first input of a session with its declared shape: the padded vector
\* declared (n) or (MaxLen), or the shorter vector declared (n), whose
\* padded length differs from that of the other values of shape (n)
SessionInputs ==
  {[val |-> Ramp, shape_expr |-> ShapeExpr(<<VarDim("n")>>)],
   [val |-> Ramp, shape_expr |-> ShapeExpr(<<IntDim(MaxLen)>>)],
   [val |-> Short, shape_expr |-> ShapeExpr(<<VarDim("n")>>)]}
\* the first input of a run on every input vector, declared (n)
ValueInputs ==
  {[val |-> v, shape_expr |-> ShapeExpr(<<VarDim("n")>>)] : v \in Vectors}

NoLast == [prim |-> "none", args |-> <<>>, dispatched |-> FALSE,
           env |-> None, params |-> <<>>]
NoLoop == [t |-> -1]

\* mask, lines 22-24, and mask_subtrace, lines 30-32: every input is wrapped
\* in a MaskTracer that carries shape_env
InitWith(inputs, funs, steps) ==
  /\ pc = "run"
  /\ shape_env \in Envs
  /\ fun \in funs
  /\ \E x \in inputs :
       in_tracers =
         << MaskTracer(Some(shape_env), x.val, x.shape_expr),
            MaskTracer(Some(shape_env), Full(<<MaxLen>>, 1),
                       ShapeExpr(<<VarDim("m")>>)),
            MaskTracer(Some(shape_env), Full(<<MaxLen, MaxLen>>, 1),
                       ShapeExpr(<<VarDim("n"), VarDim("m")>>)) >>
  /\ outs = <<>>
  /\ fuel = steps
  /\ last = NoLast
  /\ loop = NoLoop
  /\ err = "none"
  /\ ret = None

Init == InitWith(SessionInputs, SessionFuns, MaxSteps)
InitValues == InitWith(ValueInputs, Funs, 1)

Range(f) == {f[k] : k \in DOMAIN f}
Pool == Range(in_tracers) \cup Range(outs) \cup {Plain(c) : c \in ConstVals}

\* core.Primitive.bind: find_top_trace finds the trace when a tracer is among
\* the operands; the operands are then raised to it, and the outputs of
\* process_primitive are passed through full_lower
Lowered(outs_) == [k \in 1..Len(outs_) |-> full_lower(outs_[k])]
Traced(ops) == \E k \in 1..Len(ops) : ops[k].is_tracer
ValsOf(ops) == [k \in 1..Len(ops) |-> ops[k].val]
ShapesOf(ops) == [k \in 1..Len(ops) |-> ops[k].shape_expr]
Raised(ops) == [k \in 1..Len(ops) |-> full_raise(ops[k])]

\* after its first primitive application the computation goes on with the
\* values the previous one returned
Chained(args) ==
  last.prim = "none" \/ \E k \in 1..Len(args) : args[k] \in Range(outs)

\* core.Primitive.bind of a single-result primitive on operands of the pool:
\* impl on plain operands, process_primitive when a tracer is among them
bind(primitive, args, params) ==
  LET r == IF Traced(args) THEN process_primitive(primitive, Raised(args), params)
           ELSE LET q == impl(primitive, ValsOf(args), params)
                IN [status |-> q.status,
                    out |-> [k \in 1..Len(q.out) |-> Plain(q.out[k])],
                    env |-> None]
  IN /\ pc = "run"
     /\ fuel > 0
     /\ Chained(args)
     /\ fuel' = fuel - 1
     /\ last' = [prim |-> primitive, args |-> args, dispatched |-> Traced(args),
                 env |-> r.env, params |-> params]
     /\ loop' = NoLoop
     /\ IF r.status = "ok"
        THEN outs' = Lowered(r.out) /\ pc' = "run" /\ err' = "none"
        ELSE outs' = <<>> /\ pc' = "error" /\ err' = r.status
     /\ UNCHANGED <<shape_env, fun, in_tracers, ret>>

AxesOf(a) == (SUBSET (0..(Len(a.val.shape) - 1))) \ {{}}

ApplyReduceSum ==
  \E a \in Pool : \E axes \in AxesOf(a) :
    bind("reduce_sum", <<a>>, [axes |-> axes])

ApplyAdd ==
  \E a \in Pool, b \in Pool : bind("add", <<a, b>>, <<>>)

ApplyMul ==
  \E a \in Pool : bind("mul", <<a, a>>, <<>>)

\* operands of a loop with body j: constants (values closed over by the
\* body, plain constants of the computation) and initial carry of the body's
\* declared types, sequences whose elements are of the body's declared type
ScanArgs(j) ==
  {a \in [1..Len(j.in_avals) -> Pool] :
     \A k \in 1..Len(j.in_avals) :
       IF k <= NumConsts(j) + NumCarry(j)
       THEN /\ a[k].val.shape = j.in_avals[k]
            /\ k <= NumConsts(j) => a[k].val \in ConstVals
       ELSE /\ Len(a[k].val.shape) = Len(j.in_avals[k]) + 1
            /\ Tail(a[k].val.shape) = j.in_avals[k]}

\* scan_p applied: on plain operands the ordinary loop runs; otherwise
\* process_primitive (lines 89-92) enters scan_masking_rule (lines 130-137)
ApplyScan ==
  \E args \in ScanArgs(fun.jaxpr) :
    LET params == [forward |-> fun.forward, length |-> fun.length,
                   jaxpr |-> fun.jaxpr, num_consts |-> NumConsts(fun.jaxpr),
                   num_carry |-> NumCarry(fun.jaxpr),
                   linear |-> [k \in 1..Len(args) |-> FALSE]]
        ops == args
        tracers == Raised(ops)
        env == first_shape_env(tracers)
        setup == scan_masking_rule_setup(The(env), ValsOf(tracers),
                                         ShapesOf(tracers), params)
        status == IF env = None THEN "StopIteration"
                  ELSE IF "scan" \notin DOMAIN masking_rules THEN "KeyError"
                  ELSE setup.status
    IN /\ pc = "run"
       /\ fuel > 0
       /\ Chained(args)
       /\ fuel' = fuel - 1
       /\ ~Traced(ops) => IsInt(fun.length) /\ fun.length.int = args[Len(args)].val.shape[1]
       /\ last' = [prim |-> "scan", args |-> args, dispatched |-> Traced(ops),
                   env |-> IF Traced(ops) THEN env ELSE None, params |-> params]
       /\ IF ~Traced(ops)
          THEN /\ outs' = [k \in 1..Len(scan_impl(ValsOf(ops), params)) |->
                             Plain(scan_impl(ValsOf(ops), params)[k])]
               /\ pc' = "run" /\ err' = "none" /\ loop' = NoLoop
          ELSE IF status = "ok"
          THEN /\ loop' = setup.loop
               /\ pc' = "scan" /\ err' = "none" /\ outs' = <<>>
          ELSE /\ loop' = NoLoop
               /\ pc' = "error" /\ err' = status /\ outs' = <<>>
       /\ UNCHANGED <<shape_env, fun, in_tracers, ret>>

\* one iteration of the rewritten loop (masked, lines 154-161)
ScanStep ==
  /\ pc = "scan"
  /\ loop.t < loop.length
  /\ loop' = scan_iteration(loop)
  /\ UNCHANGED <<pc, shape_env, fun, in_tracers, outs, fuel, last, err, ret>>

\* the loop is over: scan_masking_rule returns (line 143), process_primitive
\* wraps the outputs (line 96) and bind passes them through full_lower
ScanReturn ==
  /\ pc = "scan"
  /\ loop.t = loop.length
  /\ LET r == scan_masking_rule_return(loop)
     IN /\ outs' = Lowered(wrap_outputs(last.env, r.out, r.out_shape))
        /\ loop' = [loop EXCEPT !.returned = Some(r)]
  /\ pc' = "run"
  /\ UNCHANGED <<shape_env, fun, in_tracers, fuel, last, err, ret>>

\* the computation returns; mask_subtrace (lines 34-36) raises its outputs
\* and mask returns their values and Symbolic Shapes
Finish ==
  /\ pc = "run"
  /\ LET res == IF last.prim = "none" THEN in_tracers ELSE outs
         out_tracers == Raised(res)
     IN ret' = Some([out_vals |-> ValsOf(out_tracers),
                     out_shapes |-> ShapesOf(out_tracers)])
  /\ pc' = "done"
  /\ UNCHANGED <<shape_env, fun, in_tracers, outs, fuel, last, loop, err>>

Next ==
  \/ ApplyReduceSum
  \/ ApplyAdd
  \/ ApplyMul
  \/ ApplyScan
  \/ ScanStep
  \/ ScanReturn
  \/ Finish

NextValues ==
  \/ ApplyReduceSum
  \/ ApplyScan
  \/ ScanStep
  \/ ScanReturn
  \/ Finish

\* a computation of up to MaxSteps primitive applications on fixed inputs
Spec == Init /\ [][Next]_vars

\* one reduction or one loop on every input vector
SpecValues == InitValues /\ [][NextValues]_vars

\* ---- what the claims read off a state ----
\* the operands of the last primitive application as dispatch received them
LastTracers == Raised(last.args)

\* a dispatched scan has returned to the computation
ScanReturned ==
  /\ last.prim = "scan"
  /\ last.dispatched
  /\ pc \in {"run", "done"}

\* the loop operands of the last application, split as the rule splits them
LastConsts == SubSeq(ValsOf(last.args), 1, last.params.num_consts)
LastInit == SubSeq(ValsOf(last.args), last.params.num_consts + 1,
                   last.params.num_consts + last.params.num_carry)
LastXs == SubSeq(ValsOf(last.args),
                 last.params.num_consts + last.params.num_carry + 1,
                 Len(last.args))
LastYAvals == SubSeq(last.params.jaxpr.out_avals, last.params.num_carry + 1,
                     Len(last.params.jaxpr.out_avals))

\* the padded length L and the dynamic length n of the last loop
PaddedLength == LastXs[1].shape[1]
DynLength ==
  IF IsVar(last.params.length) THEN shape_env[last.params.length.var]
  ELSE last.params.length.int

\* the carry of the ordinary loop over the elements idxs, in that order
OrdinaryCarry(idxs) ==
  ScanRun(last.params.jaxpr, LastConsts, LastInit, LastXs,
          EmptyYs(PaddedLength, LastYAvals), idxs).carry

\* the carried outputs of the last loop
ReturnedCarry == [k \in 1..last.params.num_carry |-> outs[k].val]

\* the ordinary (unpadded) loop: n iterations of the original body over the
\* first n elements of the sequences, in the direction of the flag
UnpaddedOrder == ScanOrder(last.params.forward, DynLength, DynLength)

\* C1 (as claimed): for padded length L and dynamic length n with
\* 0 <= n <= L, the carry scan_masking_rule returns after the L padded
\* iterations is the carry of exactly n ordinary (unpadded) iterations of the
\* original body from the same initial carry (n = L: no freezing; n = 0: the
\* initial carry).
C1_LoopFreeze ==
  (ScanReturned /\ DynLength \in 0..PaddedLength) =>
    ReturnedCarry = OrdinaryCarry(UnpaddedOrder)

\* the part of C1 the code does satisfy: on a forward loop the returned
\* carry is the carry of the ordinary loop over the first n elements
LoopFreezeForward ==
  (ScanReturned /\ last.params.forward /\ DynLength \in 0..PaddedLength) =>
    ReturnedCarry = OrdinaryCarry(UnpaddedOrder)

\* a forward loop returned with 0 < n < L and a carry that differs from the
\* carry of all L iterations, so the freezing decided the result
LoopFreezeForwardCase ==
  /\ ScanReturned
  /\ DynLength > 0
  /\ DynLength < PaddedLength
  /\ last.params.forward
  /\ ReturnedCarry #
       OrdinaryCarry(ScanOrder(last.params.forward, PaddedLength, PaddedLength))

\* the sum of the first n elements of a vector
SumFirst(val, n) == SumSeq(SubSeq(val.elems, 1, n))

\* the last application is a masked reduction of a vector of shape (s), s a symbol
ReducedSymbolicVector ==
  /\ last.prim = "reduce_sum"
  /\ last.dispatched
  /\ Len(last.args[1].shape_expr.shape) = 1
  /\ IsVar(last.args[1].shape_expr.shape[1])

\* C2: the masked sum of a vector of symbolic shape (n), padded to length L,
\* is the sum of its first n elements whatever the elements at positions
\* >= n are, for every 0 <= n <= L (0 when n = 0).
C2_MaskedSum ==
  ReducedSymbolicVector =>
    /\ err = "none"
    /\ Len(outs) = 1
    /\ outs[1].val =
         Scalar(SumFirst(last.args[1].val,
                         shape_env[last.args[1].shape_expr.shape[1].var]))

\* C2 witness: 0 < n < L, and the padding holds elements that are not zero
C2_Witness ==
  /\ ReducedSymbolicVector
  /\ LET n == shape_env[last.args[1].shape_expr.shape[1].var]
     IN /\ n > 0
        /\ n < MaxLen
        /\ SumFirst(last.args[1].val, n) # SumFirst(last.args[1].val, MaxLen)
        /\ outs[1].val = Scalar(SumFirst(last.args[1].val, n))

\* two Symbolic Shapes are literally equal: same length, integers equal by
\* value, symbols equal by name
LiteralEq(a, b) ==
  /\ Len(a.shape) = Len(b.shape)
  /\ \A k \in 1..Len(a.shape) :
       \/ IsInt(a.shape[k]) /\ IsInt(b.shape[k]) /\ a.shape[k].int = b.shape[k].int
       \/ IsVar(a.shape[k]) /\ IsVar(b.shape[k]) /\ a.shape[k].var = b.shape[k].var

\* the same shapes after the Shape Environment is substituted for the symbols
Deref(a) ==
  [k \in 1..Len(a.shape) |->
     IF IsVar(a.shape[k]) THEN shape_env[a.shape[k].var] ELSE a.shape[k].int]

AddDispatched == last.prim = "add" /\ last.dispatched

\* the padded extents of the two operands agree: x + y is defined
PaddingAgrees == CanAdd(LastTracers[1].val, LastTracers[2].val)

\* C3 (as claimed): for all operands, add_masking_rule succeeds iff the
\* operands' Symbolic Shapes are literally equal (no substitution from the
\* Shape Environment), raises ShapeError otherwise, does the same with the
\* operands swapped, and on success returns the shared shape.
C3_AddShapeEqualityAsClaimed ==
  AddDispatched =>
    LET t == LastTracers
        a == t[1].shape_expr
        b == t[2].shape_expr
        swapped == add_masking_rule(The(last.env), <<t[2].val, t[1].val>>, <<b, a>>)
    IN /\ (err = "none") <=> LiteralEq(a, b)
       /\ ~LiteralEq(a, b) => (pc = "error" /\ err = "ShapeError")
       /\ (swapped.status = "ok") <=> (err = "none")
       /\ err = "none" => (Len(outs) = 1 /\ outs[1].shape_expr = a
                           /\ outs[1].shape_expr = b)

\* C3 (amended): add_masking_rule raises ShapeError iff the operands'
\* Symbolic Shapes are not literally equal (no substitution from the Shape
\* Environment), whatever the padding; on literally equal shapes it succeeds
\* iff the padded extents of the operands agree, and otherwise the addition
\* itself fails with an error that is not ShapeError and returns nothing;
\* the outcome is the same with the operands swapped, and on success the
\* output shape is the shared shape.
C3_AddShapeEquality ==
  AddDispatched =>
    LET t == LastTracers
        a == t[1].shape_expr
        b == t[2].shape_expr
        swapped == add_masking_rule(The(last.env), <<t[2].val, t[1].val>>, <<b, a>>)
    IN /\ (pc = "error" /\ err = "ShapeError") <=> ~LiteralEq(a, b)
       /\ (err = "none") <=> (LiteralEq(a, b) /\ PaddingAgrees)
       /\ (LiteralEq(a, b) /\ ~PaddingAgrees) =>
            (pc = "error" /\ err \notin {"none", "ShapeError"} /\ outs = <<>>)
       /\ swapped.status = (IF err = "none" THEN "ok" ELSE err)
       /\ err = "none" => (Len(outs) = 1 /\ outs[1].shape_expr = a
                           /\ outs[1].shape_expr = b)

\* operands of literally equal Symbolic Shape but different padded length
\* were added: the shape check passed and x + y itself failed
AddPaddingMismatch ==
  /\ AddDispatched
  /\ LastTracers[1].shape_expr = LastTracers[2].shape_expr
  /\ ~PaddingAgrees
  /\ err = "ValueError"

\* C3 witness: two shapes that agree after substitution but are not literally
\* equal were added, and the rule raised ShapeError
C3_Witness ==
  /\ AddDispatched
  /\ Deref(LastTracers[1].shape_expr) = Deref(LastTracers[2].shape_expr)
  /\ LastTracers[1].shape_expr # LastTracers[2].shape_expr
  /\ err = "ShapeError"

\* the last application reached dispatch with a primitive that has no rule
UnsupportedDispatched ==
  /\ last.prim \notin {"none"} \cup DOMAIN masking_rules
  /\ last.dispatched

\* C4: a primitive with no entry in the rule table makes dispatch fail (the
\* table lookup raises KeyError), the failure leaves mask at once, and mask
\* returns no output values or shapes.
C4_UnsupportedPrimitive ==
  /\ UnsupportedDispatched =>
       /\ pc = "error"
       /\ err = "KeyError"
       /\ outs = <<>>
       /\ ret = None
  /\ pc = "error" => (ret = None /\ ~ENABLED Next)

\* C4 witness: the unsupported primitive came after a primitive that had
\* already produced a result
C4_Witness ==
  /\ UnsupportedDispatched
  /\ fuel = MaxSteps - 2
  /\ pc = "error"

\* every operand of the last application has a fully concrete Symbolic Shape
AllConcrete ==
  \A k \in 1..Len(last.args) :
    \A d \in 1..Len(last.args[k].shape_expr.shape) :
      IsInt(last.args[k].shape_expr.shape[d])

\* what the primitive computes on the lowered (plain) operands
LoweredResult ==
  IF last.prim = "scan"
  THEN Ok(scan_impl(ValsOf(last.args), last.params), <<>>)
  ELSE impl(last.prim, ValsOf(last.args), last.params)

\* C5 (as claimed): for a primitive with a rule and operands of fully
\* concrete Symbolic Shape, the computation gives the same result whether
\* the operands were lowered by full_lower or dispatched as Masked Values;
\* the dispatch path does not fail where the lowered path succeeds.
C5_FullLowerIdempotent ==
  ( /\ last.prim \in DOMAIN masking_rules
    /\ AllConcrete
    /\ pc # "scan"
    /\ last.prim = "scan" => (IsInt(last.params.length)
                              /\ last.params.length.int = PaddedLength)
    /\ LoweredResult.status = "ok" ) =>
      /\ err = "none"
      /\ ValsOf(outs) = LoweredResult.out

\* C6: every dispatch hands the rule the Shape Environment passed to mask,
\* wherever the operands without one (lifted constants) stand, and every
\* Masked Value dispatch produces carries that environment.
C6_EnvThreading ==
  /\ last.dispatched => last.env = Some(shape_env)
  /\ \A k \in 1..Len(outs) :
       outs[k].is_tracer => outs[k].shape_env = Some(shape_env)

\* C6 witness: the second primitive application of a computation was
\* dispatched with a lifted constant (no environment) as its first operand,
\* and a Masked Value is among its results
C6_Witness ==
  /\ last.dispatched
  /\ fuel <= MaxSteps - 2
  /\ LastTracers[1].shape_env = None
  /\ pc = "run"
  /\ \E k \in 1..Len(outs) : outs[k].is_tracer

\* what scan_masking_rule returned for the last loop: values and shapes
RuleReturn == The(loop.returned)

\* a Symbolic Shape with a symbolic dimension
Symbolic(shape_expr) ==
  \E d \in 1..Len(shape_expr.shape) : IsVar(shape_expr.shape[d])

\* C7: the loop rule returns num_carry + k values (the counter removed)
\* paired one to one with num_carry + k Symbolic Shapes: the i-th carried
\* output has the shape of the i-th initial-carry operand, each per-step
\* output the length parameter followed by the per-step shape the body
\* declares; the computation receives these values, as Masked Values of
\* these shapes where the shape has a symbolic dimension.
C7_ScanOutputShapes ==
  ScanReturned =>
    LET nc == last.params.num_consts
        ncarry == last.params.num_carry
        k == Len(LastYAvals)
        out == RuleReturn.out
        out_shape == RuleReturn.out_shape
    IN /\ Len(out) = ncarry + k
       /\ Len(out_shape) = ncarry + k
       /\ \A i \in 1..ncarry :
            /\ out_shape[i] = LastTracers[nc + i].shape_expr
            /\ out[i].shape = LastInit[i].shape
       /\ \A j \in 1..k :
            /\ out_shape[ncarry + j].shape =
                 <<last.params.length>> \o
                 [d \in 1..Len(LastYAvals[j]) |-> IntDim(LastYAvals[j][d])]
            /\ out[ncarry + j].shape = <<PaddedLength>> \o LastYAvals[j]
       /\ Len(outs) = ncarry + k
       /\ \A i \in 1..(ncarry + k) :
            /\ outs[i].val = out[i]
            /\ outs[i].is_tracer <=> Symbolic(out_shape[i])
            /\ outs[i].is_tracer => outs[i].shape_expr = out_shape[i]

\* C7 witness: a loop with two carried fields of different Symbolic Shapes,
\* a per-step output and a symbolic length has returned
C7_Witness ==
  /\ ScanReturned
  /\ last.params.num_carry = 2
  /\ Len(LastYAvals) = 1
  /\ IsVar(last.params.length)
  /\ LastTracers[1].shape_expr # LastTracers[2].shape_expr
  /\ Len(RuleReturn.out) = 3
  /\ Len(RuleReturn.out_shape) = 3

\* the counter and the carried fields of the rewritten loop
Counter(l) == l.carry[1].elems[1]
Fields(l) == Tail(l.carry)

\* what the original body computes from the loop's carry and the step input
BodyCarry(l) ==
  LET idx == ScanIndex(l.forward, l.length, l.t)
      x == [k \in 1..Len(l.xs) |-> IndexIn(l.xs[k], idx)]
  IN SubSeq(FunOut(l.jaxpr, l.consts \o Fields(l) \o x), 1, l.num_carry - 1)

\* C8: the rewritten loop starts with the counter at 0, every iteration adds
\* exactly 1 to the counter, an iteration entered with counter >= n leaves
\* every carried field unchanged, one entered with counter < n gives every
\* carried field the value the original body computes, and the loop returns
\* after exactly L iterations with the counter equal to L.
C8_PerIteration ==
  [][ /\ (pc # "scan" /\ pc' = "scan") =>
           (loop'.t = 0 /\ Counter(loop') = 0 /\ Fields(loop') = loop'.init)
      /\ (pc = "scan" /\ pc' = "scan") =>
           /\ loop'.t = loop.t + 1
           /\ Counter(loop) = loop.t
           /\ Counter(loop') = Counter(loop) + 1
           /\ Counter(loop) >= DynLength => Fields(loop') = Fields(loop)
           /\ Counter(loop) < DynLength => Fields(loop') = BodyCarry(loop)
      /\ (pc = "scan" /\ pc' # "scan") =>
           (loop.t = PaddedLength /\ Counter(loop) = PaddedLength)
    ]_vars

\* C8 witness: the loop is past its dynamic length with iterations left, and
\* the original body would change the frozen carry
C8_Witness ==
  /\ pc = "scan"
  /\ loop.t >= DynLength
  /\ loop.t > 0
  /\ loop.t < loop.length
  /\ BodyCarry(loop) # Fields(loop)

\* C9 (as claimed): with forward = False the carry returned is the carry of
\* an ordinary reverse loop over the first n elements only (n-1 down to 0).
C9_ReverseFreeze ==
  (ScanReturned /\ ~last.params.forward /\ DynLength \in 0..PaddedLength) =>
    ReturnedCarry = OrdinaryCarry([t \in 1..DynLength |-> DynLength - t])

\* C10 (as claimed): for any number of constants the rewritten body hands
\* the original body (consts, carry without the counter, step inputs), so
\* the body gets the operands it declares and the rule goes through.
C10_BodyOperands ==
  (last.prim = "scan" /\ last.dispatched) =>
    LET x == [k \in 1..Len(LastXs) |-> IndexIn(LastXs[k], 0)]
    IN /\ FunArgs(LastConsts, LastInit, x) = LastConsts \o LastInit \o x
       /\ err = "none"
====
